---------------------------- MODULE Spec2Model ----------------------------
(***************************************************************************)
(* Model of the symptom-to-diagnosis inference pipeline of                 *)
(* ai_service/ai_engine.py (SymptomPredictor) and its caller               *)
(* ai_service/server.py.  Texts are TLA+ strings, token sequences are      *)
(* sequences of integers.                                                  *)
(***************************************************************************)
EXTENDS Integers, Sequences, FiniteSets, TLC

VARIABLES
    word2idx,         \* self.word2idx, loaded from the checkpoint
    idx2word,         \* self.idx2word, loaded from the checkpoint
    pc,               \* position of the request being served
    sentence,         \* argument of SymptomPredictor.predict
    corrected,        \* spelling-corrected text
    src_padded,       \* padded input ids
    tgt_tensor,       \* partial output ids, start token first
    i,                \* number of completed iterations of the decode loop
    next_token,       \* token selected by the last model query
    queries,          \* model queries made for the current request
    raw_prediction,   \* decoded words joined by spaces
    final_diagnosis,  \* label after the logic layer
    result,           \* value returned by SymptomPredictor.predict
    exc,              \* the exception caught by predict, if any
    propagated,       \* an exception left predict
    response,         \* value the server sent for the last request
    script            \* behaviour of the sequence model on this request

vars == <<word2idx, idx2word, pc, sentence, corrected, src_padded,
          tgt_tensor, i, next_token, queries, raw_prediction,
          final_diagnosis, result, exc, propagated, response, script>>

(***************************************************************************)
(* Configuration and bounds                                                *)
(***************************************************************************)
MAX_LEN == 100

\* number of phrases joined into one input text of the logic layer
MaxFrags == 2

\* number of words of the over-long input text beyond MAX_LEN
ExtraWords == 20

(***************************************************************************)
(* Python string operations                                                *)
(***************************************************************************)
LowerMap ==
    ("A" :> "a") @@ ("B" :> "b") @@ ("C" :> "c") @@ ("D" :> "d") @@ ("E" :> "e") @@ ("F" :> "f") @@ ("G" :> "g") @@
    ("H" :> "h") @@ ("I" :> "i") @@ ("J" :> "j") @@ ("K" :> "k") @@ ("L" :> "l") @@ ("M" :> "m") @@ ("N" :> "n") @@
    ("O" :> "o") @@ ("P" :> "p") @@ ("Q" :> "q") @@ ("R" :> "r") @@ ("S" :> "s") @@ ("T" :> "t") @@ ("U" :> "u") @@
    ("V" :> "v") @@ ("W" :> "w") @@ ("X" :> "x") @@ ("Y" :> "y") @@ ("Z" :> "z")

\* str.lower() on one character
LowerChar(c) == IF c \in DOMAIN LowerMap THEN LowerMap[c] ELSE c

\* inverse image of LowerChar: str.upper() on one character
UpperChar(c) ==
    IF \E u \in DOMAIN LowerMap : LowerMap[u] = c
    THEN CHOOSE u \in DOMAIN LowerMap : LowerMap[u] = c
    ELSE c

IsAlpha(c) == \/ c \in DOMAIN LowerMap
              \/ \E u \in DOMAIN LowerMap : LowerMap[u] = c

Whitespace == {" ", "\t", "\n", "\r"}

\* character k of s, as a string of length 1
char(s, k) == SubSeq(s, k, k)

RECURSIVE lower(_)
lower(s) ==
    IF Len(s) = 0 THEN ""
    ELSE IF Len(s) = 1 THEN LowerChar(s)
    ELSE LET h == Len(s) \div 2
         IN  lower(SubSeq(s, 1, h)) \o lower(SubSeq(s, h + 1, Len(s)))

\* Python's  x in text  for strings: x is a contiguous substring of text
In(x, text) ==
    \E k \in 1..(Len(text) - Len(x) + 1) : SubSeq(text, k, k + Len(x) - 1) = x

\* any(x in text for x in xs)
any_in(text, xs) == \E x \in xs : In(x, text)

IsSpace(s, k) == char(s, k) \in Whitespace

\* positions where a maximal run of non-whitespace characters starts
WordStarts(s) ==
    {k \in 1..Len(s) : ~IsSpace(s, k) /\ (k = 1 \/ IsSpace(s, k - 1))}

\* last position of the run that starts at k
WordEnd(s, k) ==
    CHOOSE e \in k..Len(s) :
        /\ \A m \in k..e : ~IsSpace(s, m)
        /\ (e = Len(s) \/ IsSpace(s, e + 1))

\* str.split(): the maximal runs of non-whitespace characters, in order
split(s) ==
    LET starts == WordStarts(s)
        nth(n) == CHOOSE k \in starts :
                      Cardinality({m \in starts : m < k}) = n - 1
    IN  [n \in 1..Cardinality(starts) |-> SubSeq(s, nth(n), WordEnd(s, nth(n)))]

RECURSIVE join(_, _)
join(sep, ws) ==
    IF Len(ws) = 0 THEN ""
    ELSE IF Len(ws) = 1 THEN ws[1]
    ELSE LET h == Len(ws) \div 2
         IN  join(sep, SubSeq(ws, 1, h)) \o sep
                 \o join(sep, SubSeq(ws, h + 1, Len(ws)))

\* str.strip(): without leading and trailing whitespace
strip(s) ==
    LET keep == {k \in 1..Len(s) : ~IsSpace(s, k)}
    IN  IF keep = {} THEN ""
        ELSE SubSeq(s, CHOOSE k \in keep : \A m \in keep : k <= m,
                       CHOOSE k \in keep : \A m \in keep : k >= m)

\* characters a..b of s.title(): a letter is upper-case exactly when the
\* character before it is not a letter
RECURSIVE TitleRange(_, _, _)
TitleRange(s, a, b) ==
    IF a > b THEN ""
    ELSE IF a = b
         THEN IF a > 1 /\ IsAlpha(char(s, a - 1))
              THEN LowerChar(char(s, a))
              ELSE UpperChar(char(s, a))
    ELSE LET h == (a + b) \div 2
         IN  TitleRange(s, a, h) \o TitleRange(s, h + 1, b)

title(s) == TitleRange(s, 1, Len(s))

\* dict.get(key, default)
get(d, key, default) == IF key \in DOMAIN d THEN d[key] ELSE default

(***************************************************************************)
(* Advice table (SymptomPredictor.__init__)                                *)
(***************************************************************************)
advice_db ==
    ("fungal infection" :>
        "Keep the affected area clean and completely dry. Avoid sharing towels, clothes, or footwear. Wear loose, breathable cotton clothing. Do not scratch the area, as it can spread the infection. If symptoms persist or worsen, consult a dermatologist.") @@
    ("allergy" :>
        "Identify and avoid known allergens such as dust, pollen, or pet dander. Keep windows closed during high pollen seasons. Use masks in polluted environments. Over-the-counter antihistamines may help, but consult a doctor if symptoms are severe.") @@
    ("malaria" :>
        "Seek medical attention immediately for confirmation through blood tests. Rest adequately and drink plenty of fluids to prevent dehydration. Avoid self-medication. Use mosquito nets and repellents to prevent further bites.") @@
    ("jaundice" :>
        "Drink plenty of boiled or filtered water. Eat easily digestible, low-fat foods. Avoid alcohol and oily or spicy foods completely. Take adequate rest and follow up with liver function tests as advised by a doctor.") @@
    ("stomach infection" :>
        "Stay hydrated by drinking ORS or electrolyte solutions. Eat bland foods like rice, bananas, yogurt, and toast. Avoid spicy, oily, or outside food. If vomiting or diarrhea persists, seek medical help.") @@
    ("bronchial asthma" :>
        "Keep prescribed inhalers accessible at all times. Avoid known triggers such as smoke, dust, cold air, and strong odors. Practice breathing exercises if advised. Seek emergency care if breathlessness suddenly worsens.") @@
    ("cervical spondylosis" :>
        "Maintain proper posture while sitting and using electronic devices. Avoid prolonged screen time without breaks. Gentle neck stretching and physiotherapy exercises may help. Use a firm pillow and avoid sudden neck movements.") @@
    ("migraine" :>
        "Rest in a dark, quiet room during an attack. Avoid loud noise, bright lights, and screen exposure. Stay well hydrated and do not skip meals. Identify and avoid personal triggers such as stress or lack of sleep.") @@
    ("arthritis" :>
        "Apply warm compresses to relieve stiffness and cold packs for swelling. Engage in gentle joint movements to maintain flexibility. Maintain a healthy weight to reduce joint stress. Avoid heavy lifting or overexertion.") @@
    ("viral fever" :>
        "Take complete rest and stay hydrated. Monitor body temperature regularly. Eat light, nutritious food. Avoid antibiotics unless prescribed by a doctor.") @@
    ("dengue" :>
        "Seek immediate medical supervision and regular blood tests. Drink plenty of fluids such as water, coconut water, and ORS. Avoid painkillers like ibuprofen or aspirin. Watch for warning signs like bleeding or severe abdominal pain.") @@
    ("typhoid" :>
        "Complete the full course of prescribed medication. Maintain strict hygiene and drink safe water. Eat soft, low-fiber foods during recovery. Avoid street food until fully recovered.") @@
    ("covid-19" :>
        "Isolate yourself to prevent spread. Monitor oxygen levels and temperature regularly. Stay hydrated and get adequate rest. Seek medical attention if breathing difficulty develops.") @@
    ("food poisoning" :>
        "Avoid solid food temporarily if vomiting is severe. Sip ORS or clear fluids frequently. Avoid dairy, caffeine, and alcohol. Seek medical care if symptoms persist beyond 24 hours.") @@
    ("dehydration" :>
        "Increase fluid intake immediately using ORS or electrolyte drinks. Avoid excessive heat exposure. Eat water-rich fruits. Seek medical help if dizziness or confusion occurs.")

(***************************************************************************)
(* Logic layer (SymptomPredictor._apply_medical_logic)                     *)
(***************************************************************************)
NoOverride == [hit |-> FALSE, label |-> ""]
Override(label) == [hit |-> TRUE, label |-> label]

\* variant: "chest pain" missing from the first red-flag list
RedFlagOverrides_noChestPain(text) ==
    IF any_in(text, {"severe breath", "unable to breathe"})
    THEN Override("bronchial asthma")
    ELSE IF any_in(text, {"unconscious", "faint", "seizure"})
         THEN Override("viral fever")
         ELSE NoOverride

\* variant: "unconscious" missing from the second red-flag list
RedFlagOverrides_noUnconscious(text) ==
    IF any_in(text, {"chest pain", "severe breath", "unable to breathe"})
    THEN Override("bronchial asthma")
    ELSE IF any_in(text, {"faint", "seizure"})
         THEN Override("viral fever")
         ELSE NoOverride

\* 0. red-flag overrides
RedFlagOverrides(text) ==
    IF any_in(text, {"chest pain", "severe breath", "unable to breathe"})
    THEN Override("bronchial asthma")
    ELSE IF any_in(text, {"unconscious", "faint", "seizure"})
         THEN Override("viral fever")
         ELSE NoOverride

\* variant: the safeguard keeps the prediction when no sub-pattern matches
SpondylosisSafeguard_keeps(text, pred) ==
    IF In("spondylosis", pred)
    THEN IF any_in(text, {"fever", "temperature", "chills"})
         THEN Override("viral fever")
         ELSE IF any_in(text, {"vomit", "nausea", "diarrhea", "loose motion"})
         THEN Override("stomach infection")
         ELSE IF In("itch", text) /\ In("rash", text)
         THEN Override("fungal infection")
         ELSE IF In("breath", text)
         THEN Override("bronchial asthma")
         ELSE Override(pred)
    ELSE NoOverride

\* 1. spondylosis safeguard
SpondylosisSafeguard(text, pred) ==
    IF In("spondylosis", pred)
    THEN IF any_in(text, {"fever", "temperature", "chills"})
         THEN Override("viral fever")
         ELSE IF any_in(text, {"vomit", "nausea", "diarrhea", "loose motion"})
         THEN Override("stomach infection")
         ELSE IF In("itch", text) /\ In("rash", text)
         THEN Override("fungal infection")
         ELSE IF In("breath", text)
         THEN Override("bronchial asthma")
         ELSE NoOverride
    ELSE NoOverride

\* 2. jaundice logic
JaundiceLogic(text) ==
    IF (In("yellow", text) /\ In("skin", text)) \/ In("yellow eyes", text)
    THEN IF any_in(text, {"urine", "dark urine", "fatigue", "abdominal pain"})
         THEN Override("jaundice")
         ELSE Override("jaundice")
    ELSE NoOverride

\* variant: the two sub-checks of the fever block in the other order
MalariaVsViralFever_swapped(text) ==
    IF In("fever", text)
    THEN IF any_in(text, {"body ache", "headache", "weakness"})
         THEN Override("viral fever")
         ELSE IF any_in(text, {"shiver", "chills", "sweating cycles"})
         THEN Override("malaria")
         ELSE NoOverride
    ELSE NoOverride

\* 3. malaria vs viral fever
MalariaVsViralFever(text) ==
    IF In("fever", text)
    THEN IF any_in(text, {"shiver", "chills", "sweating cycles"})
         THEN Override("malaria")
         ELSE IF any_in(text, {"body ache", "headache", "weakness"})
         THEN Override("viral fever")
         ELSE NoOverride
    ELSE NoOverride

\* 4. dengue check
DengueCheck(text) ==
    IF In("fever", text) /\ any_in(text, {"platelet", "joint pain", "eye pain"})
    THEN Override("dengue")
    ELSE NoOverride

\* 5. asthma vs infection
AsthmaVsInfection(text) ==
    IF any_in(text, {"breath", "wheezing", "tight chest"})
    THEN IF ~In("fever", text) THEN Override("bronchial asthma") ELSE NoOverride
    ELSE NoOverride

\* 6. stomach issues
StomachIssues(text) ==
    IF any_in(text, {"vomit", "nausea", "loose motion", "diarrhea"})
    THEN IF In("fever", text)
         THEN Override("stomach infection")
         ELSE Override("food poisoning")
    ELSE NoOverride

\* 7. headache logic
HeadacheLogic(text) ==
    IF In("headache", text)
    THEN IF any_in(text, {"light", "noise", "dark room", "throbbing"})
         THEN Override("migraine")
         ELSE IF In("fever", text) THEN Override("viral fever") ELSE NoOverride
    ELSE NoOverride

\* 8. joint and muscle logic
JointMuscleLogic(text) ==
    IF any_in(text, {"joint pain", "swelling", "stiffness"})
    THEN IF In("morning", text) \/ In("chronic", text)
         THEN Override("arthritis")
         ELSE IF In("fever", text) THEN Override("viral fever") ELSE NoOverride
    ELSE NoOverride

\* variant: the lower-cased prediction is returned
Fallback_lowered(prediction, pred) == pred

\* 9. fallback: the prediction as it was passed in
Fallback(prediction, pred) == prediction

\* the blocks in the order the function body lists them
RuleBlocks(text, pred) ==
    << RedFlagOverrides(text),
       SpondylosisSafeguard(text, pred),
       JaundiceLogic(text),
       MalariaVsViralFever(text),
       DengueCheck(text),
       AsthmaVsInfection(text),
       StomachIssues(text),
       HeadacheLogic(text),
       JointMuscleLogic(text) >>

_apply_medical_logic(input_text, prediction) ==
    LET text == lower(input_text)
        pred == lower(prediction)
        blocks == RuleBlocks(text, pred)
        hits == {k \in 1..Len(blocks) : blocks[k].hit}
    IN  IF hits = {}
        THEN Fallback(prediction, pred)
        ELSE blocks[CHOOSE k \in hits : \A m \in hits : k <= m].label

(***************************************************************************)
(* Conversational layer (SymptomPredictor._format_polite_response)         *)
(***************************************************************************)
GenericAdvice == "Please consult a general physician for a detailed checkup."

openers(display_name) ==
    << "Based on your symptoms, it looks like you might have **"
            \o display_name \o "**.",
       "I have analyzed your symptoms. The indicators point towards **"
            \o display_name \o "**.",
       "It seems you are experiencing symptoms of **"
            \o display_name \o "**." >>

\* stands for the one non-ASCII character of the source's format string
LightBulb == "{U+1F4A1}"

\* choice is the index random.choice draws
_format_polite_response(diagnosis0, choice) ==
    LET diagnosis == lower(strip(diagnosis0))
        advice == get(advice_db, diagnosis, GenericAdvice)
        display_name == title(diagnosis)
        chosen_opener == openers(display_name)[choice]
    IN  chosen_opener \o "\n\n" \o LightBulb \o " **Dr. AI Recommends:**" \o "\n" \o advice

(***************************************************************************)
(* Checkpoint contents (SymptomPredictor._load_model)                      *)
(***************************************************************************)
\* a checkpoint whose vocabulary holds the four reserved markers
FullCheckpoint ==
    [word2idx |-> ("<pad>" :> 0) @@ ("<unk>" :> 1) @@ ("<sos>" :> 2) @@
                  ("<eos>" :> 3) @@ ("fever" :> 4) @@ ("pain" :> 5) @@
                  ("cervical" :> 6) @@ ("spondylosis" :> 7) @@
                  ("migraine" :> 8),
     idx2word |-> (0 :> "<pad>") @@ (1 :> "<unk>") @@ (2 :> "<sos>") @@
                  (3 :> "<eos>") @@ (4 :> "fever") @@ (5 :> "pain") @@
                  (6 :> "cervical") @@ (7 :> "spondylosis") @@
                  (8 :> "migraine")]

\* a checkpoint without reserved markers: the .get defaults 0/1/2/0 apply
BareCheckpoint ==
    [word2idx |-> ("migraine" :> 3) @@ ("fever" :> 4) @@ ("pain" :> 5) @@
                  ("cervical" :> 6) @@ ("spondylosis" :> 7),
     idx2word |-> (3 :> "migraine") @@ (4 :> "fever") @@ (5 :> "pain") @@
                  (6 :> "cervical") @@ (7 :> "spondylosis")]

Checkpoints == {FullCheckpoint, BareCheckpoint}

(***************************************************************************)
(* Tokenizer and input construction (SymptomPredictor.predict, step 2)     *)
(***************************************************************************)
_encode_text(w2i, text) ==
    LET ws == split(lower(text))
    IN  [k \in 1..Len(ws) |-> get(w2i, ws[k], get(w2i, "<unk>", 0))]

sos_idx(w2i) == get(w2i, "<sos>", 1)
eos_idx(w2i) == get(w2i, "<eos>", 2)
pad_idx(w2i) == get(w2i, "<pad>", 0)

Min(a, b) == IF a <= b THEN a ELSE b

\* seq[:n] for n >= 0
SliceTo(seq, n) == SubSeq(seq, 1, Min(Len(seq), n))

\* [x] * n, empty when n <= 0
Repeat(x, n) == [k \in 1..n |-> x]

\* variant: the encoded text is not truncated
src_tokens_untruncated(w2i, text) == _encode_text(w2i, text)

src_tokens(w2i, text) == SliceTo(_encode_text(w2i, text), MAX_LEN - 2)

src_padded_of(w2i, text) ==
    LET toks == src_tokens(w2i, text)
    IN  <<sos_idx(w2i)>> \o toks \o <<eos_idx(w2i)>>
            \o Repeat(pad_idx(w2i), MAX_LEN - Len(toks) - 2)

(***************************************************************************)
(* Sequence model (TransformerModel.forward, PositionalEncoding.forward)   *)
(***************************************************************************)
\* x + self.pe[:, :x.size(1)] needs x.size(1) <= max_len rows of pe
PositionalEncodingFits(x) == Len(x) <= MAX_LEN

ForwardFits(src, tgt) == PositionalEncodingFits(src) /\ PositionalEncodingFits(tgt)

\* The trained weights are not part of the repository.  A script fixes what
\* output[0, -1].argmax() is on one request: the ids in words, cyclically,
\* except that the end token is selected at position stop.
ModelArgmax(s, eos, tgt) ==
    LET p == Len(tgt) - 1
    IN  IF p = s.stop THEN eos ELSE s.words[(p % Len(s.words)) + 1]

ScriptWords == { <<6, 7>>, <<8>>, <<4, 3, 2>>, <<99>> }
ScriptStops == { 0, 1, 2, MAX_LEN - 1, MAX_LEN }
Scripts == [words : ScriptWords, stop : ScriptStops]
NoScript == [words |-> <<0>>, stop |-> 0]

(***************************************************************************)
(* Decode loop (SymptomPredictor.predict, step 3)                          *)
(***************************************************************************)
\* variant: one iteration more
LoopRange_plusOne == 0..MAX_LEN

\* for _ in range(MAX_LEN)
LoopRange == 0..(MAX_LEN - 1)

\* variant: the token is appended before the end-token test
LoopBody_appendFirst(tgt, tok, eos) ==
    [brk |-> tok = eos, tgt |-> Append(tgt, tok)]

\* the loop body after the query: break on the end token, else append
LoopBody(tgt, tok, eos) ==
    IF tok = eos
    THEN [brk |-> TRUE, tgt |-> tgt]
    ELSE [brk |-> FALSE, tgt |-> Append(tgt, tok)]

\* " ".join([self.idx2word.get(idx, "") for idx in tgt_tensor[0].tolist()[1:]])
raw_prediction_of(i2w, tgt) ==
    join(" ", [k \in 1..(Len(tgt) - 1) |-> get(i2w, tgt[k + 1], "")])

(***************************************************************************)
(* Exceptions                                                              *)
(***************************************************************************)
\* failures the stages of predict raise; all derive from Exception
Exceptions ==
    { [type |-> "RuntimeError", msg |-> "size mismatch"],
      [type |-> "IndexError", msg |-> "index out of range in self"],
      [type |-> "LookupError", msg |-> "resource not found"] }

NoException == [type |-> "None", msg |-> ""]

SizeMismatch == [type |-> "RuntimeError", msg |-> "size mismatch"]

\* variant: a narrower except clause
ExceptException_narrow(e) == e.type = "RuntimeError"

\* except Exception as e
ExceptException(e) == e.type \in {"RuntimeError", "IndexError", "LookupError"}

\* str(e)
str(e) == e.msg

(***************************************************************************)
(* Inputs                                                                  *)
(***************************************************************************)
\* an input of more than MAX_LEN words
LongText == join(" ", [k \in 1..(MAX_LEN + ExtraWords) |-> "pain"])

Symptoms == { "", "chest pain", "Fever and chills", "neck stiffness", LongText }

\* TextBlob(sentence).correct() is an external service: any text may come back
NormalizerOutputs == Symptoms

Fragments ==
    { "chest pain", "severe", "breath", "unable to breathe", "unconscious",
      "fainted", "yellow skin", "Yellow Eyes", "dark urine", "fever",
      "Fever", "high temperature", "fever, chills and shivering",
      "body ache", "joint pain", "wheezing", "tight chest",
      "vomiting and diarrhea, no fever", "nausea", "headache",
      "sensitive to light", "morning stiffness", "swelling", "chronic",
      "itchy", "rash", "neck pain" }

RECURSIVE TextsOf(_)
TextsOf(n) ==
    IF n = 0 THEN {""}
    ELSE LET prev == TextsOf(n - 1)
         IN  prev \cup { IF t = "" THEN f ELSE t \o " " \o f :
                            t \in prev, f \in Fragments }

LogicTexts == TextsOf(MaxFrags)

LogicPreds == { "cervical spondylosis", "Cervical Spondylosis", "migraine",
                "allergy ", "" }

(***************************************************************************)
(* State                                                                   *)
(***************************************************************************)
NoResult == [none |-> ""]

TryBlock == {"correct", "prepare", "decode", "join", "logic", "format"}

\* the locals of predict before the call starts
FreshLocals ==
    /\ sentence' = ""
    /\ corrected' = ""
    /\ src_padded' = <<>>
    /\ tgt_tensor' = <<>>
    /\ i' = 0
    /\ next_token' = -1
    /\ queries' = 0
    /\ raw_prediction' = ""
    /\ final_diagnosis' = ""
    /\ exc' = NoException
    /\ script' = NoScript

Init ==
    /\ \E c \in Checkpoints : word2idx = c.word2idx /\ idx2word = c.idx2word
    /\ pc = "idle"
    /\ sentence = ""
    /\ corrected = ""
    /\ src_padded = <<>>
    /\ tgt_tensor = <<>>
    /\ i = 0
    /\ next_token = -1
    /\ queries = 0
    /\ raw_prediction = ""
    /\ final_diagnosis = ""
    /\ result = NoResult
    /\ exc = NoException
    /\ propagated = FALSE
    /\ response = NoResult
    /\ script = NoScript

(***************************************************************************)
(* server.py: POST /predict                                                *)
(***************************************************************************)
ServerPredict ==
    /\ pc = "idle"
    /\ \E symptom \in Symptoms :
         IF symptom = ""
         THEN /\ response' = [status_code |-> 400, detail |-> "Empty text"]
              /\ UNCHANGED <<word2idx, idx2word, pc, sentence, corrected,
                             src_padded, tgt_tensor, i, next_token, queries,
                             raw_prediction, final_diagnosis, result, exc,
                             propagated, script>>
         ELSE /\ \E s \in Scripts : script' = s
              /\ sentence' = symptom
              /\ pc' = "correct"
              /\ response' = NoResult
              /\ UNCHANGED <<word2idx, idx2word, corrected, src_padded,
                             tgt_tensor, i, next_token, queries,
                             raw_prediction, final_diagnosis, result, exc,
                             propagated>>

ServerRespond ==
    /\ pc = "returned"
    /\ response' = IF propagated
                   THEN [status_code |-> 500, detail |-> "Internal Server Error"]
                   ELSE result
    /\ pc' = "idle"
    /\ result' = NoResult
    /\ propagated' = FALSE
    /\ FreshLocals
    /\ UNCHANGED <<word2idx, idx2word>>

(***************************************************************************)
(* SymptomPredictor.predict                                                *)
(***************************************************************************)
\* an exception e leaves the try block
Handle(e) ==
    /\ exc' = e
    /\ pc' = "returned"
    /\ IF ExceptException(e)
       THEN result' = [error |-> str(e)] /\ propagated' = FALSE
       ELSE result' = NoResult /\ propagated' = TRUE

\* 1. correct spelling
CorrectSpelling ==
    /\ pc = "correct"
    /\ \E c \in NormalizerOutputs : corrected' = c
    /\ pc' = "prepare"
    /\ UNCHANGED <<word2idx, idx2word, sentence, src_padded, tgt_tensor, i,
                   next_token, queries, raw_prediction, final_diagnosis,
                   result, exc, propagated, response, script>>

\* 2. prepare for AI
PrepareForAI ==
    /\ pc = "prepare"
    /\ src_padded' = src_padded_of(word2idx, corrected)
    /\ tgt_tensor' = <<sos_idx(word2idx)>>
    /\ i' = 0
    /\ pc' = "decode"
    /\ UNCHANGED <<word2idx, idx2word, sentence, corrected, next_token,
                   queries, raw_prediction, final_diagnosis, result, exc,
                   propagated, response, script>>

\* 3. ask the brain: one iteration of the loop
AskTheBrain ==
    /\ pc = "decode"
    /\ i \in LoopRange
    /\ queries' = queries + 1
    /\ IF ForwardFits(src_padded, tgt_tensor)
       THEN LET tok == ModelArgmax(script, eos_idx(word2idx), tgt_tensor)
                body == LoopBody(tgt_tensor, tok, eos_idx(word2idx))
            IN  /\ next_token' = tok
                /\ tgt_tensor' = body.tgt
                /\ i' = IF body.brk THEN i ELSE i + 1
                /\ pc' = IF body.brk \/ (i + 1) \notin LoopRange
                         THEN "join" ELSE "decode"
                /\ UNCHANGED <<result, exc, propagated>>
       ELSE /\ Handle(SizeMismatch)
            /\ UNCHANGED <<next_token, tgt_tensor, i>>
    /\ UNCHANGED <<word2idx, idx2word, sentence, corrected, src_padded,
                   raw_prediction, final_diagnosis, response, script>>

\* the decoded ids become words
DecodeOutput ==
    /\ pc = "join"
    /\ raw_prediction' = raw_prediction_of(idx2word, tgt_tensor)
    /\ pc' = "logic"
    /\ UNCHANGED <<word2idx, idx2word, sentence, corrected, src_padded,
                   tgt_tensor, i, next_token, queries, final_diagnosis,
                   result, exc, propagated, response, script>>

\* 4. apply hybrid logic
ApplyHybridLogic ==
    /\ pc = "logic"
    /\ final_diagnosis' = _apply_medical_logic(corrected, raw_prediction)
    /\ pc' = "format"
    /\ UNCHANGED <<word2idx, idx2word, sentence, corrected, src_padded,
                   tgt_tensor, i, next_token, queries, raw_prediction,
                   result, exc, propagated, response, script>>

\* 5. make it polite, and return
MakeItPolite ==
    /\ pc = "format"
    /\ \E choice \in 1..3 :
         result' = [original |-> sentence,
                    corrected |-> corrected,
                    diagnosis |-> _format_polite_response(final_diagnosis, choice)]
    /\ pc' = "returned"
    /\ UNCHANGED <<word2idx, idx2word, sentence, corrected, src_padded,
                   tgt_tensor, i, next_token, queries, raw_prediction,
                   final_diagnosis, exc, propagated, response, script>>

\* a stage inside the try block raises
Fail ==
    /\ pc \in TryBlock
    /\ \E e \in Exceptions : Handle(e)
    /\ UNCHANGED <<word2idx, idx2word, sentence, corrected, src_padded,
                   tgt_tensor, i, next_token, queries, raw_prediction,
                   final_diagnosis, response, script>>

Next ==
    \/ ServerPredict
    \/ CorrectSpelling
    \/ PrepareForAI
    \/ AskTheBrain
    \/ DecodeOutput
    \/ ApplyHybridLogic
    \/ MakeItPolite
    \/ Fail
    \/ ServerRespond

Spec == Init /\ [][Next]_vars

(***************************************************************************)
(* The logic layer on its own: every text and prediction of the input sets *)
(***************************************************************************)
InitLogic ==
    /\ word2idx = FullCheckpoint.word2idx
    /\ idx2word = FullCheckpoint.idx2word
    /\ pc = "logic"
    /\ corrected \in LogicTexts
    /\ sentence = corrected
    /\ raw_prediction \in LogicPreds
    /\ src_padded = <<>>
    /\ tgt_tensor = <<>>
    /\ i = 0
    /\ next_token = -1
    /\ queries = 0
    /\ final_diagnosis = ""
    /\ result = NoResult
    /\ exc = NoException
    /\ propagated = FALSE
    /\ response = NoResult
    /\ script = NoScript

NextLogic ==
    \/ ApplyHybridLogic
    \/ MakeItPolite

LogicSpec == InitLogic /\ [][NextLogic]_vars

(***************************************************************************)
(* Properties of the logic layer (checked under LogicSpec)                 *)
(***************************************************************************)
\* the logic layer has just produced final_diagnosis
Applied == pc = "format"

AsthmaFlags == {"chest pain", "severe breath", "unable to breathe"}
CollapseFlags == {"unconscious", "faint", "seizure"}

HasSafetyPhrase(t) == any_in(t, AsthmaFlags \cup CollapseFlags)

HasJaundicePhrase(t) ==
    (In("yellow", t) /\ In("skin", t)) \/ In("yellow eyes", t)

\* C2: a text containing "chest pain" always gets "bronchial asthma", and a
\* text with a safety-override phrase and a jaundice phrase gets the safety
\* label, never "jaundice".
C2_ChestPainForcesAsthma ==
    Applied =>
        /\ In("chest pain", corrected) => final_diagnosis = "bronchial asthma"
        /\ (HasSafetyPhrase(lower(corrected)) /\ HasJaundicePhrase(lower(corrected)))
              => final_diagnosis \in {"bronchial asthma", "viral fever"}

C2_Witness ==
    /\ Applied
    /\ In("chest pain", corrected)
    /\ HasJaundicePhrase(lower(corrected))
    /\ In("spondylosis", lower(raw_prediction))
    /\ final_diagnosis = "bronchial asthma"

\* C3 as stated: a text containing "unconscious" always gets "viral fever".
C3_UnconsciousAlwaysViralFever ==
    (Applied /\ In("unconscious", corrected)) => final_diagnosis = "viral fever"

\* C3, amended: a text containing "unconscious" and none of "chest pain",
\* "severe breath", "unable to breathe" gets "viral fever".
C3_UnconsciousWithoutAsthmaFlag ==
    (Applied /\ In("unconscious", corrected)
             /\ ~any_in(lower(corrected), AsthmaFlags))
        => final_diagnosis = "viral fever"

C3_Witness ==
    /\ Applied
    /\ In("unconscious", corrected)
    /\ HasJaundicePhrase(lower(corrected))
    /\ ~any_in(lower(corrected), AsthmaFlags)
    /\ final_diagnosis = "viral fever"

\* C4: the text "vomiting and diarrhea, no fever" gets "food poisoning".
C4_NoFeverIsFoodPoisoning ==
    (Applied /\ corrected = "vomiting and diarrhea, no fever")
        => final_diagnosis = "food poisoning"

HasFeverChillsShivering(t) ==
    In("fever", t) /\ In("chills", t) /\ In("shivering", t)

\* C5 as stated: a text containing "fever", "chills" and "shivering" always
\* gets "malaria".
C5_FeverChillsAlwaysMalaria ==
    (Applied /\ HasFeverChillsShivering(corrected))
        => final_diagnosis = "malaria"

\* C5, amended: such a text gets "malaria" when it has no safety-override
\* phrase and no jaundice phrase and the raw prediction does not contain
\* "spondylosis" (all three matched on the lower-cased strings).
C5_FeverChillsMalariaUnlessEarlierRule ==
    (Applied /\ HasFeverChillsShivering(corrected)
             /\ ~HasSafetyPhrase(lower(corrected))
             /\ ~HasJaundicePhrase(lower(corrected))
             /\ ~In("spondylosis", lower(raw_prediction)))
        => final_diagnosis = "malaria"

C5_Witness ==
    /\ Applied
    /\ HasFeverChillsShivering(corrected)
    /\ In("headache", corrected)
    /\ ~In("spondylosis", lower(raw_prediction))
    /\ final_diagnosis = "malaria"

\* The rules 1-8 of the written rule list, as conditions under which the rule
\* yields a label, on the lower-cased text t and prediction p.
Rule1Yields(t) == HasSafetyPhrase(t)
SafeguardSubPattern(t) ==
    \/ any_in(t, {"fever", "temperature", "chills"})
    \/ any_in(t, {"vomit", "nausea", "diarrhea", "loose motion"})
    \/ (In("itch", t) /\ In("rash", t))
    \/ In("breath", t)
Rule2Yields(t, p) == In("spondylosis", p) /\ SafeguardSubPattern(t)
Rule3Yields(t) == HasJaundicePhrase(t)
Rule4Yields(t) ==
    In("fever", t) /\ any_in(t, {"shiver", "chills", "sweating cycles",
                                 "body ache", "headache", "weakness"})
Rule5Yields(t) ==
    In("fever", t) /\ any_in(t, {"platelet", "joint pain", "eye pain"})
Rule6Yields(t) ==
    any_in(t, {"breath", "wheezing", "tight chest"}) /\ ~In("fever", t)
Rule7Yields(t) == any_in(t, {"vomit", "nausea", "loose motion", "diarrhea"})
Rule8Yields(t) ==
    In("headache", t) /\ (any_in(t, {"light", "noise", "dark room", "throbbing"})
                            \/ In("fever", t))
NoListedRuleYields(t, p) ==
    ~(Rule1Yields(t) \/ Rule2Yields(t, p) \/ Rule3Yields(t) \/ Rule4Yields(t)
        \/ Rule5Yields(t) \/ Rule6Yields(t) \/ Rule7Yields(t) \/ Rule8Yields(t))

\* the block after the headache block, which the written rule list omits
JointRuleYields(t) ==
    any_in(t, {"joint pain", "swelling", "stiffness"})
        /\ (In("morning", t) \/ In("chronic", t) \/ In("fever", t))

\* C7 as stated: when none of the rules 1-8 yields a label the raw prediction
\* is returned unchanged.
C7_NoListedRuleGivesRaw ==
    (Applied /\ NoListedRuleYields(lower(corrected), lower(raw_prediction)))
        => final_diagnosis = raw_prediction

\* C7, amended: when none of the rules 1-8 and not the joint-and-muscle block
\* either ("joint pain", "swelling" or "stiffness" together with "morning",
\* "chronic" or "fever") yields a label, the raw prediction is returned
\* unchanged.
C7_NoRuleAtAllGivesRaw ==
    (Applied /\ NoListedRuleYields(lower(corrected), lower(raw_prediction))
             /\ ~JointRuleYields(lower(corrected)))
        => final_diagnosis = raw_prediction

C7_Witness ==
    /\ Applied
    /\ In("headache", corrected)
    /\ NoListedRuleYields(lower(corrected), lower(raw_prediction))
    /\ ~JointRuleYields(lower(corrected))
    /\ raw_prediction # lower(raw_prediction)
    /\ final_diagnosis = raw_prediction

\* the case C8 is about: no safety phrase, "spondylosis" predicted, no
\* sub-pattern of the safeguard in the text
SafeguardFallsThrough ==
    /\ Applied
    /\ ~HasSafetyPhrase(lower(corrected))
    /\ In("spondylosis", lower(raw_prediction))
    /\ ~SafeguardSubPattern(lower(corrected))

\* C8 as stated: in that case the raw prediction is the final label.
C8_SafeguardEndsEvaluation ==
    SafeguardFallsThrough => final_diagnosis = raw_prediction

\* C8, amended: in that case the safeguard yields nothing and the later blocks
\* decide: "jaundice" for a jaundice phrase, else "bronchial asthma" for
\* "wheezing" or "tight chest", else "migraine" for "headache" with a light,
\* noise, dark-room or throbbing term, else "arthritis" for a joint term with
\* "morning" or "chronic", else the raw prediction unchanged.
C8_SafeguardFallsToLaterRules ==
    SafeguardFallsThrough =>
        LET t == lower(corrected)
        IN  final_diagnosis =
              IF HasJaundicePhrase(t) THEN "jaundice"
              ELSE IF any_in(t, {"wheezing", "tight chest"}) THEN "bronchial asthma"
              ELSE IF In("headache", t)
                        /\ any_in(t, {"light", "noise", "dark room", "throbbing"})
                   THEN "migraine"
              ELSE IF any_in(t, {"joint pain", "swelling", "stiffness"})
                        /\ (In("morning", t) \/ In("chronic", t))
                   THEN "arthritis"
              ELSE raw_prediction

C8_Witness ==
    /\ SafeguardFallsThrough
    /\ corrected # ""
    /\ raw_prediction # lower(raw_prediction)
    /\ final_diagnosis = raw_prediction

(***************************************************************************)
(* Properties of the request pipeline (checked under Spec)                 *)
(***************************************************************************)
\* C1: a request makes at most MAX_LEN model queries, whatever the model
\* selects; the loop counter never passes the query count.
C1_AtMostMaxLenQueries ==
    /\ queries <= MAX_LEN
    /\ i <= queries
    /\ pc = "decode" => queries < MAX_LEN

C1_Witness ==
    /\ pc = "join"
    /\ queries = MAX_LEN
    /\ next_token # eos_idx(word2idx)
    /\ script.stop = MAX_LEN

\* C9: the end token stops the loop at once: it is never appended, no query
\* follows it, and the output ids never contain it.
C9_EndTokenStopsAndIsNotAppended ==
    /\ \A k \in 2..Len(tgt_tensor) : tgt_tensor[k] # eos_idx(word2idx)
    /\ (pc = "decode" /\ queries > 0) => next_token # eos_idx(word2idx)
    /\ (pc \in {"join", "logic", "format"} /\ next_token = eos_idx(word2idx))
          => Len(tgt_tensor) = queries

C9_Witness ==
    /\ pc = "join"
    /\ next_token = eos_idx(word2idx)
    /\ queries = 3
    /\ Len(tgt_tensor) = 3

\* C10: whenever the model is about to be queried the padded input has
\* exactly MAX_LEN ids and the partial output has between 1 and MAX_LEN ids.
C10_QueryShapesFitPositionalEncoding ==
    pc = "decode" =>
        /\ i \in 0..(MAX_LEN - 1)
        /\ Len(src_padded) = MAX_LEN
        /\ Len(tgt_tensor) \in 1..MAX_LEN
        /\ Len(tgt_tensor) = i + 1

C10_Witness ==
    /\ pc = "join"
    /\ Len(tgt_tensor) = MAX_LEN + 1
    /\ queries = MAX_LEN
    /\ Len(src_padded) = MAX_LEN
    /\ corrected = LongText

\* what a request returns when nothing fails, from its own inputs alone
DecodedIds(w2i, s) ==
    LET eos == eos_idx(w2i)
        tok(p) == IF p = s.stop THEN eos ELSE s.words[(p % Len(s.words)) + 1]
        ends == {p \in 0..(MAX_LEN - 1) : tok(p) = eos}
        n == IF ends = {} THEN MAX_LEN
             ELSE CHOOSE p \in ends : \A q \in ends : p <= q
    IN  [k \in 1..n |-> tok(k - 1)]

SuccessResults(w2i, i2w, sen, cor, s) ==
    LET ids == DecodedIds(w2i, s)
        raw == join(" ", [k \in 1..Len(ids) |-> get(i2w, ids[k], "")])
        label == _apply_medical_logic(cor, raw)
    IN  { [original |-> sen, corrected |-> cor,
           diagnosis |-> _format_polite_response(label, c)] : c \in 1..3 }

\* C6: a failure inside predict ends the request with an object that holds
\* only the error string, no exception leaves predict, the loaded vocabulary
\* is never changed, the server answers and is idle again, and a request
\* that does not fail returns what its own inputs determine.
C6_FailureIsLocalToItsRequest ==
    [][ /\ word2idx' = word2idx
        /\ idx2word' = idx2word
        /\ ~propagated'
        /\ (exc' # exc /\ exc' # NoException)
              => (pc \in TryBlock /\ pc' = "returned"
                    /\ result' = [error |-> str(exc')])
        /\ (pc' = "returned" /\ pc # "returned" /\ exc' = NoException)
              => result' \in SuccessResults(word2idx, idx2word, sentence,
                                            corrected, script)
        /\ pc = "returned" => (pc' = "idle" /\ response' = result)
      ]_vars

C6_Witness ==
    /\ pc = "idle"
    /\ DOMAIN response = {"error"}
    /\ response.error = "index out of range in self"
    /\ ~propagated

=============================================================================
